---- MODULE Spec2Model ----
(***************************************************************************)
(* Model of awq/models/mixtral.py: the Mixtral adapter of the quantization *)
(* library.  The state is the pretrained model object (its attribute tree, *)
(* objects told apart by their id), the position of a running             *)
(* fuse_transformer and the outcome of the last call.  One action per      *)
(* adapter operation; the host framework's version string is read by the   *)
(* call that checks it.                                                    *)
(***************************************************************************)
EXTENDS Integers, Sequences, FiniteSets, TLC

\* Largest number of decoder layers of a model.
MaxLayers == 2

\* Largest number of experts of a layer's block_sparse_moe.
MaxExperts == 2

VARIABLES
    model,                  \* the OldMixtralForCausalLM object handed to the adapter
    fuser,                  \* fuse_layers' local: the MixtralFuser (None outside it)
    pc,                     \* position of fuse_transformer: idle, loop, done
    blocks,                 \* fuse_transformer's local list of fused blocks
    iter,                   \* number of loop iterations fuse_transformer has completed
    ret                     \* outcome of the last adapter call

vars == <<model, fuser, pc, blocks, iter, ret>>

None == [id |-> "None"]

(***************************************************************************)
(* Python values: an expression either yields a value or raises.           *)
(***************************************************************************)
Ok(v) == [exc |-> "", val |-> v]

Raise(e) == [exc |-> e, val |-> None]

Raised(r) == r.exc # ""

\* The exception of the first operand (left to right) that raised, "" if none did.
RECURSIVE FirstExc(_)
FirstExc(rs) ==
    IF rs = <<>> THEN ""
    ELSE IF Raised(Head(rs)) THEN Head(rs).exc
    ELSE FirstExc(Tail(rs))

\* obj.name
GetAttr(obj, name) ==
    IF name \in DOMAIN obj THEN Ok(obj[name]) ELSE Raise("AttributeError")

\* obj.a.b.c ...
RECURSIVE GetPath(_, _)
GetPath(obj, path) ==
    IF path = <<>> THEN Ok(obj)
    ELSE LET r == GetAttr(obj, Head(path))
         IN  IF Raised(r) THEN r ELSE GetPath(r.val, Tail(path))

(***************************************************************************)
(* Version strings and _transformers_version_check.                        *)
(***************************************************************************)
Digits == <<"0", "1", "2", "3", "4", "5", "6", "7", "8", "9">>

IsDigit(c) == \E d \in 1..10 : Digits[d] = c

DigitVal(c) == (CHOOSE d \in 1..10 : Digits[d] = c) - 1

\* str.split('.') on a sequence of characters
RECURSIVE SplitDot(_, _, _)
SplitDot(s, cur, acc) ==
    IF s = <<>> THEN Append(acc, cur)
    ELSE IF Head(s) = "." THEN SplitDot(Tail(s), <<>>, Append(acc, cur))
    ELSE SplitDot(Tail(s), Append(cur, Head(s)), acc)

Split(s) == SplitDot(s, <<>>, <<>>)

\* '.'.join(parts)
RECURSIVE Join(_)
Join(parts) ==
    IF Len(parts) = 0 THEN <<>>
    ELSE IF Len(parts) = 1 THEN parts[1]
    ELSE parts[1] \o <<".">> \o Join(Tail(parts))

RECURSIVE DecimalValue(_, _)
DecimalValue(s, acc) ==
    IF s = <<>> THEN acc ELSE DecimalValue(Tail(s), 10 * acc + DigitVal(Head(s)))

\* int(s) for a string without sign or blanks
ParseInt(s) ==
    IF s # <<>> /\ \A i \in 1..Len(s) : IsDigit(s[i])
    THEN Ok(DecimalValue(s, 0))
    ELSE Raise("ValueError")

MinVersionError == "Exception: Mixtral requires a minimum of 4.37.0.dev0"

\* The tuple unpacking of lines 17-20.
Unpack(tv) ==
    IF Len(tv) = 4 THEN Ok([major |-> tv[1], minor |-> tv[2], patch |-> tv[3], dev |-> tv[4]])
    ELSE IF Len(tv) = 3 THEN Ok([major |-> tv[1], minor |-> tv[2], patch |-> tv[3]])
    ELSE Raise("ValueError")

\* A check whose comparison of the minor number is off by one.
VersionCheckOffByOne(version) ==
    LET u == Unpack(Split(version)) IN
    IF Raised(u) THEN u
    ELSE LET major == ParseInt(u.val.major) IN
         IF Raised(major) THEN major
         ELSE IF major.val # 4 THEN Ok(None)
         ELSE LET minor == ParseInt(u.val.minor) IN
              IF Raised(minor) THEN minor
              ELSE IF minor.val <= 37 THEN Raise(MinVersionError)
              ELSE Ok(None)

_transformers_version_check(version) ==
    LET u == Unpack(Split(version)) IN
    IF Raised(u) THEN u
    ELSE LET major == ParseInt(u.val.major) IN
         IF Raised(major) THEN major
         ELSE IF major.val # 4 THEN Ok(None)            \* "and" short-circuits
         ELSE LET minor == ParseInt(u.val.minor) IN
              IF Raised(minor) THEN minor
              ELSE IF minor.val < 37 THEN Raise(MinVersionError)
              ELSE Ok(None)

(***************************************************************************)
(* The pretrained model: the attribute tree of an OldMixtralForCausalLM.   *)
(* Every object carries its id; two attributes refer to the same object    *)
(* exactly when the ids are equal.  An attribute an object lacks is a      *)
(* field its record lacks.                                                 *)
(***************************************************************************)
Idx(i) == ToString(i)

\* A Python list: an object holding its items in order.
PyList(items) == [class |-> "list", items |-> items]

\* nn.ModuleList
ModuleList(id, items) == [id |-> id, class |-> "ModuleList", items |-> items]

Tensor(id, shape) == [id |-> id, shape |-> shape, device |-> "cpu"]

Linear(id, shape) ==
    [id |-> id, class |-> "Linear", weight |-> Tensor(id \o ".weight", shape)]

RMSNorm(id, hidden) ==
    [id |-> id, class |-> "MixtralRMSNorm",
     weight |-> Tensor(id \o ".weight", <<hidden>>), variance_epsilon |-> "1e-05"]

Expert(id, hidden) ==
    [id |-> id, class |-> "MixtralBLockSparseTop2MLP",
     w1 |-> Linear(id \o ".w1", <<2 * hidden, hidden>>),
     w2 |-> Linear(id \o ".w2", <<hidden, 2 * hidden>>),
     w3 |-> Linear(id \o ".w3", <<2 * hidden, hidden>>)]

SparseMoeBlock(id, config) ==
    [id |-> id, class |-> "MixtralSparseMoeBlock",
     num_experts |-> config.num_local_experts,
     hidden_dim |-> config.hidden_size,
     gate |-> Linear(id \o ".gate", <<config.num_local_experts, config.hidden_size>>),
     experts |-> ModuleList(id \o ".experts",
                    [j \in 1..config.num_local_experts |->
                        Expert(id \o ".experts." \o Idx(j - 1), config.hidden_size)])]

Attention(id, config) ==
    LET head_dim == config.hidden_size \div config.num_attention_heads
        kv_dim == config.num_key_value_heads * head_dim IN
    [id |-> id, class |-> "MixtralAttention",
     q_proj |-> Linear(id \o ".q_proj", <<config.hidden_size, config.hidden_size>>),
     k_proj |-> Linear(id \o ".k_proj", <<kv_dim, config.hidden_size>>),
     v_proj |-> Linear(id \o ".v_proj", <<kv_dim, config.hidden_size>>),
     o_proj |-> Linear(id \o ".o_proj", <<config.hidden_size, config.hidden_size>>)]

DecoderLayer(id, config) ==
    [id |-> id, class |-> "MixtralDecoderLayer",
     self_attn |-> Attention(id \o ".self_attn", config),
     block_sparse_moe |-> SparseMoeBlock(id \o ".block_sparse_moe", config),
     input_layernorm |-> RMSNorm(id \o ".input_layernorm", config.hidden_size),
     post_attention_layernorm |->
         RMSNorm(id \o ".post_attention_layernorm", config.hidden_size)]

Config(n, e, kv) ==
    [hidden_size |-> 8, num_attention_heads |-> 2, num_key_value_heads |-> kv,
     num_hidden_layers |-> n, num_local_experts |-> e, vocab_size |-> 32,
     max_new_tokens |-> 16, rope_theta |-> 1000000]

\* obj without the attribute at the end of path
RECURSIVE DelAttr(_, _)
DelAttr(obj, path) ==
    IF Len(path) = 1
    THEN [a \in DOMAIN obj \ {path[1]} |-> obj[a]]
    ELSE [obj EXCEPT ![path[1]] = DelAttr(obj[path[1]], Tail(path))]

\* A layer damaged by a layout change of the host framework: miss.path names the
\* attribute it lacks, below expert miss.expert when that is not 0.
Damaged(layer, miss) ==
    IF miss.path = <<>> THEN layer
    ELSE IF miss.expert = 0 THEN DelAttr(layer, miss.path)
    ELSE [layer EXCEPT !.block_sparse_moe.experts.items[miss.expert] =
                           DelAttr(@, miss.path)]

NoMiss == [path |-> <<>>, expert |-> 0]

Misses(n, e) ==
    {NoMiss}
    \cup (IF n = 0 THEN {}
          ELSE {[path |-> p, expert |-> 0] :
                    p \in {<<"input_layernorm">>, <<"self_attn", "o_proj">>,
                           <<"block_sparse_moe">>}})
    \cup (IF n = 0 \/ e = 0 THEN {} ELSE {[path |-> <<"w3">>, expert |-> e]})

\* The model as loaded: n decoder layers of e experts each; the last layer may
\* lack an attribute.
Pretrained(n, e, kv, miss) ==
    LET config == Config(n, e, kv) IN
    [id |-> "model", class |-> "MixtralForCausalLM", config |-> config,
     model |->
        [id |-> "model.model", class |-> "MixtralModel",
         embed_tokens |->
            [id |-> "model.embed_tokens", class |-> "Embedding",
             weight |-> Tensor("model.embed_tokens.weight",
                               <<config.vocab_size, config.hidden_size>>)],
         layers |-> ModuleList("model.layers",
                       [i \in 1..n |->
                           LET l == DecoderLayer("model.layers." \o Idx(i - 1), config)
                           IN  IF i = n THEN Damaged(l, miss) ELSE l]),
         norm |-> RMSNorm("model.norm", config.hidden_size)]]

Models ==
    {Pretrained(n, e, kv, miss) :
        <<n, e, kv, miss>> \in
            {t \in (0..MaxLayers) \X (0..MaxExperts) \X {1, 2} \X Misses(MaxLayers, MaxExperts) :
                t[4] \in Misses(t[1], t[2])
                /\ (t[4].expert # 0 => t[4].expert = t[2])}}
Components ==
    [major : {<<"3">>, <<"4">>, <<"5">>},
     minor : {<<"9">>, <<"3", "6">>, <<"3", "7">>},
     patch : {<<"0">>},
     dev   : {<<>>, <<"d", "e", "v", "0">>}]

\* The version strings of the host framework: "3.0.0", "4.36.0", "4.37.0.dev0", ...
Versions ==
    {Join(IF c.dev = <<>> THEN <<c.major, c.minor, c.patch>>
          ELSE <<c.major, c.minor, c.patch, c.dev>>) : c \in Components}

(***************************************************************************)
(* MixtralAWQForCausalLM: the scaling descriptors.                         *)
(***************************************************************************)
\* d.get(key): a lookup that yields None for a key the dict lacks.
GetItemOrNone(d, key) ==
    IF key \in DOMAIN d THEN Ok(d[key]) ELSE Ok(None)

\* d[key]
GetItem(d, key) ==
    IF key \in DOMAIN d THEN Ok(d[key]) ELSE Raise("KeyError")

\* f'block_sparse_moe.experts.{i}.w2'
ExpertKey(i) == "block_sparse_moe.experts." \o Idx(i) \o ".w2"

get_act_for_scaling(module) == Ok([is_scalable |-> FALSE])

\* The descriptor with the two numbers of scale_shape exchanged.
get_moe_for_scaling_swapped(module) ==
    LET scale_layer == GetAttr(module, "block_sparse_moe")
        num_experts == GetPath(module, <<"block_sparse_moe", "num_experts">>)
        hidden_dim  == GetPath(module, <<"block_sparse_moe", "hidden_dim">>)
        exc == FirstExc(<<scale_layer, num_experts, hidden_dim>>) IN
    IF exc # "" THEN Raise(exc)
    ELSE Ok([scale_name  |-> "block_sparse_moe",
             scale_layer |-> scale_layer.val,
             scale_shape |-> <<hidden_dim.val, num_experts.val>>])

get_moe_for_scaling(module) ==
    LET scale_layer == GetAttr(module, "block_sparse_moe")
        num_experts == GetPath(module, <<"block_sparse_moe", "num_experts">>)
        hidden_dim  == GetPath(module, <<"block_sparse_moe", "hidden_dim">>)
        exc == FirstExc(<<scale_layer, num_experts, hidden_dim>>) IN
    IF exc # "" THEN Raise(exc)
    ELSE Ok([scale_name  |-> "block_sparse_moe",
             scale_layer |-> scale_layer.val,
             scale_shape |-> <<num_experts.val, hidden_dim.val>>])

\* Lines 62-69: the attention-input descriptor.
AttentionInput(module, input_feat, module_kwargs) ==
    LET prev_op == GetAttr(module, "input_layernorm")
        q == GetPath(module, <<"self_attn", "q_proj">>)
        k == GetPath(module, <<"self_attn", "k_proj">>)
        v == GetPath(module, <<"self_attn", "v_proj">>)
        inp == GetItem(input_feat, "self_attn.q_proj")
        module2inspect == GetAttr(module, "self_attn")
        exc == FirstExc(<<prev_op, q, k, v, inp, module2inspect>>) IN
    IF exc # "" THEN Raise(exc)
    ELSE Ok([prev_op |-> prev_op.val, layers |-> PyList(<<q.val, k.val, v.val>>),
             inp |-> inp.val, module2inspect |-> module2inspect.val,
             kwargs |-> module_kwargs])

\* The attention-out descriptor appended whatever the shapes are.
AttentionOutUnconditional(module, input_feat) ==
    LET prev_op == GetPath(module, <<"self_attn", "v_proj">>)
        o == GetPath(module, <<"self_attn", "o_proj">>)
        inp == GetItem(input_feat, "self_attn.o_proj")
        exc == FirstExc(<<prev_op, o, inp>>) IN
    IF exc # "" THEN Raise(exc)
    ELSE Ok(<<[prev_op |-> prev_op.val, layers |-> PyList(<<o.val>>), inp |-> inp.val]>>)

\* Lines 71-77: the attention-out descriptor, appended when the shapes are equal.
AttentionOut(module, input_feat) ==
    LET vshape == GetPath(module, <<"self_attn", "v_proj", "weight", "shape">>)
        oshape == GetPath(module, <<"self_attn", "o_proj", "weight", "shape">>)
        cond == FirstExc(<<vshape, oshape>>) IN
    IF cond # "" THEN Raise(cond)
    ELSE IF vshape.val # oshape.val THEN Ok(<<>>)
    ELSE LET prev_op == GetPath(module, <<"self_attn", "v_proj">>)
             o == GetPath(module, <<"self_attn", "o_proj">>)
             inp == GetItem(input_feat, "self_attn.o_proj")
             exc == FirstExc(<<prev_op, o, inp>>) IN
         IF exc # "" THEN Raise(exc)
         ELSE Ok(<<[prev_op |-> prev_op.val, layers |-> PyList(<<o.val>>), inp |-> inp.val]>>)

\* Lines 79-86: the mixture-of-experts descriptor.
MoeDescriptor(module, input_feat) ==
    LET prev_op == GetAttr(module, "block_sparse_moe")
        experts == GetPath(module, <<"block_sparse_moe", "experts">>)
        inp == GetItem(input_feat, "block_sparse_moe")
        module2inspect == GetAttr(module, "block_sparse_moe")
        exc == FirstExc(<<prev_op, experts, inp, module2inspect>>) IN
    IF exc # "" THEN Raise(exc)
    ELSE Ok([prev_op |-> prev_op.val, layers |-> experts.val, inp |-> inp.val,
             module2inspect |-> module2inspect.val])

\* The loop of lines 88-95 reading every expert's input under expert 0's key.
RECURSIVE ExpertsW2FirstKey(_, _, _, _)
ExpertsW2FirstKey(experts, input_feat, i, acc) ==
    IF i >= Len(experts.items) THEN Ok(acc)
    ELSE LET expert == experts.items[i + 1]
             prev_op == GetAttr(expert, "w3")
             w2 == GetAttr(expert, "w2")
             inp == GetItem(input_feat, ExpertKey(0))
             exc == FirstExc(<<prev_op, w2, inp>>) IN
         IF exc # "" THEN Raise(exc)
         ELSE ExpertsW2FirstKey(experts, input_feat, i + 1,
                        Append(acc, [prev_op |-> prev_op.val, layers |-> PyList(<<w2.val>>),
                                     inp |-> inp.val]))

\* Lines 88-95: for i, expert in enumerate(experts), from index i on.
RECURSIVE ExpertsW2(_, _, _, _)
ExpertsW2(experts, input_feat, i, acc) ==
    IF i >= Len(experts.items) THEN Ok(acc)
    ELSE LET expert == experts.items[i + 1]
             prev_op == GetAttr(expert, "w3")
             w2 == GetAttr(expert, "w2")
             inp == GetItem(input_feat, ExpertKey(i))
             exc == FirstExc(<<prev_op, w2, inp>>) IN
         IF exc # "" THEN Raise(exc)
         ELSE ExpertsW2(experts, input_feat, i + 1,
                        Append(acc, [prev_op |-> prev_op.val, layers |-> PyList(<<w2.val>>),
                                     inp |-> inp.val]))

get_layers_for_scaling(module, input_feat, module_kwargs) ==
    LET s1 == AttentionInput(module, input_feat, module_kwargs)
        s2 == AttentionOut(module, input_feat)
        s3 == MoeDescriptor(module, input_feat)
        experts == GetPath(module, <<"block_sparse_moe", "experts">>)
        s4 == IF Raised(experts) THEN experts
              ELSE ExpertsW2(experts.val, input_feat, 0, <<>>) IN
    IF Raised(s1) THEN Raise(s1.exc)
    ELSE IF Raised(s2) THEN Raise(s2.exc)
    ELSE IF Raised(s3) THEN Raise(s3.exc)
    ELSE IF Raised(s4) THEN Raise(s4.exc)
    ELSE Ok(PyList(<<s1.val>> \o s2.val \o <<s3.val>> \o s4.val))

\* nn.Module.to(device): moves the module's parameters and returns the module itself.
ModuleTo(module, device) == [module EXCEPT !.weight.device = device]
(***************************************************************************)
(* MixtralFuser.                                                           *)
(***************************************************************************)
\* model.named_modules(): (name, module) pairs, the root first, depth first.
NamedModules(m) ==
    LET inner == m.model
        OfLayer(l) ==
            <<<<l.id, l>>>>
            \o (IF "self_attn" \in DOMAIN l
                THEN <<<<l.id \o ".self_attn", l.self_attn>>>> ELSE <<>>)
            \o (IF "block_sparse_moe" \in DOMAIN l
                THEN <<<<l.id \o ".block_sparse_moe", l.block_sparse_moe>>>> ELSE <<>>)
            \o (IF "input_layernorm" \in DOMAIN l
                THEN <<<<l.id \o ".input_layernorm", l.input_layernorm>>>> ELSE <<>>)
            \o (IF "post_attention_layernorm" \in DOMAIN l
                THEN <<<<l.id \o ".post_attention_layernorm", l.post_attention_layernorm>>>>
                ELSE <<>>)
        OfLayers[i \in 0..Len(inner.layers.items)] ==
            IF i = 0 THEN <<>> ELSE OfLayers[i - 1] \o OfLayer(inner.layers.items[i])
    IN  <<<<"", m>>, <<"model", inner>>, <<"model.embed_tokens", inner.embed_tokens>>,
          <<"model.layers", inner.layers>>>>
        \o OfLayers[Len(inner.layers.items)]
        \o <<<<"model.norm", inner.norm>>>>

\* 'MixtralDecoderLayer'.lower() in module.__class__.__name__.lower(): of the
\* classes of a pretrained model only the decoder layer's name holds the needle.
IsDecoderLayerClass(module) == module.class = "MixtralDecoderLayer"

\* MixtralFuser.__init__: holds the model (by reference) and its decoder layers.
MixtralFuser(m) ==
    LET nm == NamedModules(m)
        Pick[i \in 0..Len(nm)] ==
            IF i = 0 THEN <<>>
            ELSE IF IsDecoderLayerClass(nm[i][2])
                 THEN Append(Pick[i - 1], [name |-> nm[i][1], module |-> nm[i][2].id])
                 ELSE Pick[i - 1]
    IN  [class |-> "MixtralFuser", model |-> m.id, mixtral_blocks |-> Pick[Len(nm)]]

\* One pass of the loop body of fuse_transformer (lines 114-141): the fused block
\* of module, or the attribute error of the first lookup that fails.
FusedBlock(module, config) ==
    LET device == GetPath(module, <<"self_attn", "q_proj", "weight", "device">>)
        q == GetPath(module, <<"self_attn", "q_proj">>)
        k == GetPath(module, <<"self_attn", "k_proj">>)
        v == GetPath(module, <<"self_attn", "v_proj">>)
        w1 == GetPath(module, <<"input_layernorm", "weight">>)
        e1 == GetPath(module, <<"input_layernorm", "variance_epsilon">>)
        w2 == GetPath(module, <<"post_attention_layernorm", "weight">>)
        e2 == GetPath(module, <<"post_attention_layernorm", "variance_epsilon">>)
        o_proj == GetPath(module, <<"self_attn", "o_proj">>)
        moe == GetAttr(module, "block_sparse_moe")
        exc == FirstExc(<<device, q, k, v, w1, e1, w2, e2, o_proj, moe>>) IN
    IF exc # "" THEN Raise(exc)
    ELSE Ok([class |-> "MixtralBlock",
             hidden_size |-> config.hidden_size,
             n_heads |-> config.num_attention_heads,
             n_kv_heads |-> config.num_key_value_heads,
             qkv_layer |-> [class |-> "fuse_qkv", module |-> module.id,
                            q_proj |-> q.val, k_proj |-> k.val, v_proj |-> v.val],
             o_proj |-> o_proj.val,
             moe |-> moe.val,
             norm_1 |-> [class |-> "FasterTransformerRMSNorm",
                         weight |-> w1.val, eps |-> e1.val],
             norm_2 |-> [class |-> "FasterTransformerRMSNorm",
                         weight |-> w2.val, eps |-> e2.val],
             dev |-> device.val,
             max_seq_len |-> config.max_new_tokens,
             rope_theta |-> config.rope_theta])

\* MixtralModel(vocab_size, blocks, embedding, norm): a new object holding its
\* arguments; it exposes the block list as .blocks (line 149 reads it back).
FusedModel(vocab_size, blks, embedding, norm) ==
    [id |-> "MixtralModel(fused)", class |-> "awq.modules.fused.model.MixtralModel",
     vocab_size |-> vocab_size, blocks |-> blks, embedding |-> embedding, norm |-> norm]

(***************************************************************************)
(* The state machine.                                                      *)
(***************************************************************************)
Devices == {"cpu", "cuda:0"}

FeatKeys ==
    {"self_attn.q_proj", "self_attn.o_proj", "block_sparse_moe"}
    \cup {ExpertKey(i) : i \in 0..(MaxExperts - 1)}

\* The captured input features, a dict from layer names to feature tensors:
\* complete, or lacking one key.
InputFeats ==
    {[k \in K |-> [id |-> "feat:" \o k]] :
        K \in {FeatKeys} \cup {FeatKeys \ {k} : k \in FeatKeys}}

ModuleKwargs == [id |-> "module_kwargs"]

Callable == pc = "idle"

Layers == model.model.layers.items

NoBlocks == <<>>

Returned(op, args, r) == [op |-> op, args |-> args, exc |-> r.exc, val |-> r.val]

Init ==
    /\ model \in Models
    /\ fuser = None
    /\ pc = "idle"
    /\ blocks = <<>>
    /\ iter = 0
    /\ ret = [op |-> "load", args |-> [model |-> model.id], exc |-> "", val |-> None]

\* get_model_layers(model), with transformers.__version__ as the check reads it
get_model_layers(m, transformers_version) ==
    LET check == _transformers_version_check(transformers_version) IN
    IF Raised(check) THEN check ELSE GetPath(m, <<"model", "layers">>)

Call_get_model_layers ==
    /\ Callable
    /\ \E transformers_version \in Versions :
          ret' = Returned("get_model_layers",
                          [model |-> model.id, version |-> transformers_version],
                          get_model_layers(model, transformers_version))
    /\ UNCHANGED <<model, fuser, pc, blocks, iter>>

Call_get_act_for_scaling ==
    /\ Callable
    /\ \E i \in 1..Len(Layers) :
          ret' = Returned("get_act_for_scaling", [module |-> Layers[i]],
                          get_act_for_scaling(Layers[i]))
    /\ UNCHANGED <<model, fuser, pc, blocks, iter>>

Call_get_moe_for_scaling ==
    /\ Callable
    /\ \E i \in 1..Len(Layers) :
          ret' = Returned("get_moe_for_scaling", [module |-> Layers[i]],
                          get_moe_for_scaling(Layers[i]))
    /\ UNCHANGED <<model, fuser, pc, blocks, iter>>

Call_get_layers_for_scaling ==
    /\ Callable
    /\ \E i \in 1..Len(Layers), input_feat \in InputFeats :
          ret' = Returned("get_layers_for_scaling",
                          [module |-> Layers[i], input_feat |-> input_feat,
                           module_kwargs |-> ModuleKwargs],
                          get_layers_for_scaling(Layers[i], input_feat, ModuleKwargs))
    /\ UNCHANGED <<model, fuser, pc, blocks, iter>>

\* move_embed storing a copy of the embedding, as Tensor.to would hand back.
move_embed_copy(device) ==
    /\ Callable
    /\ model' = [model EXCEPT !.model.embed_tokens =
                    [ModuleTo(@, device) EXCEPT !.id = @ \o "(copy)"]]
    /\ ret' = Returned("move_embed", [model |-> model.id, device |-> device], Ok(None))
    /\ UNCHANGED <<fuser, pc, blocks, iter>>

move_embed(device) ==
    /\ Callable
    /\ model' = [model EXCEPT !.model.embed_tokens = ModuleTo(@, device)]
    /\ ret' = Returned("move_embed", [model |-> model.id, device |-> device], Ok(None))
    /\ UNCHANGED <<fuser, pc, blocks, iter>>

Call_move_embed == \E device \in Devices : move_embed(device)

\* MixtralFuser(model), on its own: the call returns the new fuser.
New_MixtralFuser ==
    /\ Callable
    /\ ret' = Returned("MixtralFuser", [model |-> model.id], Ok(MixtralFuser(model)))
    /\ UNCHANGED <<model, fuser, pc, blocks, iter>>

\* fuse_layers(model): constructs the fuser and enters fuse_transformer.
Call_fuse_layers ==
    /\ Callable
    /\ fuser' = MixtralFuser(model)
    /\ pc' = "loop"
    /\ blocks' = <<>>
    /\ iter' = 0
    /\ ret' = Returned("fuse_layers", [model |-> model.id], Ok(None))
    /\ UNCHANGED <<model>>

\* The loop body inserting each block at the front of the list.
FuseIterationPrepend ==
    /\ pc = "loop"
    /\ iter < Len(Layers)
    /\ LET block == FusedBlock(Layers[iter + 1], model.config) IN
       IF Raised(block)
       THEN /\ pc' = "idle"
            /\ ret' = [ret EXCEPT !.exc = block.exc]
            /\ fuser' = None
            /\ blocks' = NoBlocks
            /\ iter' = 0
       ELSE /\ blocks' = <<block.val>> \o blocks
            /\ iter' = iter + 1
            /\ UNCHANGED <<pc, ret, fuser>>
    /\ UNCHANGED model

\* The loop body storing each block into the layer list as it goes.
FuseIterationInPlace ==
    /\ pc = "loop"
    /\ iter < Len(Layers)
    /\ LET block == FusedBlock(Layers[iter + 1], model.config) IN
       IF Raised(block)
       THEN /\ pc' = "idle"
            /\ ret' = [ret EXCEPT !.exc = block.exc]
            /\ fuser' = None
            /\ blocks' = NoBlocks
            /\ iter' = 0
            /\ UNCHANGED model
       ELSE /\ blocks' = Append(blocks, block.val)
            /\ iter' = iter + 1
            /\ model' = [model EXCEPT !.model.layers.items[iter + 1] = block.val]
            /\ UNCHANGED <<pc, ret, fuser>>

\* One iteration of the loop over self.model.model.layers.
FuseIteration ==
    /\ pc = "loop"
    /\ iter < Len(Layers)
    /\ LET block == FusedBlock(Layers[iter + 1], model.config) IN
       IF Raised(block)
       THEN /\ pc' = "idle"
            /\ ret' = [ret EXCEPT !.exc = block.exc]
            /\ fuser' = None
            /\ blocks' = NoBlocks
            /\ iter' = 0
       ELSE /\ blocks' = Append(blocks, block.val)
            /\ iter' = iter + 1
            /\ UNCHANGED <<pc, ret, fuser>>
    /\ UNCHANGED model

\* A collaborator called by the loop body or after it raises.
CollaboratorRaises ==
    /\ pc = "loop"
    /\ \E callee \in IF iter < Len(Layers)
                     THEN {"fuse_qkv", "FasterTransformerRMSNorm", "MixtralBlock"}
                     ELSE {"MixtralModel"} :
          ret' = [ret EXCEPT !.exc = "RuntimeError in " \o callee]
    /\ pc' = "idle"
    /\ fuser' = None
    /\ blocks' = NoBlocks
    /\ iter' = 0
    /\ UNCHANGED model

\* The fused model built with the embedding and the norm exchanged.
FuseFinishSwapped ==
    /\ pc = "loop"
    /\ iter = Len(Layers)
    /\ model' = [model EXCEPT !.model =
                    FusedModel(model.config.vocab_size, blocks,
                               model.model.norm, model.model.embed_tokens)]
    /\ pc' = "done"
    /\ fuser' = None
    /\ blocks' = NoBlocks
    /\ iter' = 0
    /\ UNCHANGED ret

\* Lines 143-149: the loop is over; model.model becomes the fused model.
FuseFinish ==
    /\ pc = "loop"
    /\ iter = Len(Layers)
    /\ model' = [model EXCEPT !.model =
                    FusedModel(model.config.vocab_size, blocks,
                               model.model.embed_tokens, model.model.norm)]
    /\ pc' = "done"
    /\ fuser' = None
    /\ blocks' = NoBlocks
    /\ iter' = 0
    /\ UNCHANGED ret

Next ==
    \/ Call_get_model_layers
    \/ Call_get_act_for_scaling
    \/ Call_get_moe_for_scaling
    \/ Call_get_layers_for_scaling
    \/ Call_move_embed
    \/ New_MixtralFuser
    \/ Call_fuse_layers
    \/ FuseIteration
    \/ CollaboratorRaises
    \/ FuseFinish

Spec == Init /\ [][Next]_vars

\* fuse_transformer is synchronous straight-line code: a loop body that can run
\* runs, and so does the assignment after the loop.
FairSpec == Spec /\ WF_vars(FuseIteration) /\ WF_vars(FuseFinish)

(***************************************************************************)
(* Properties.                                                             *)
(***************************************************************************)
\* (major, minor) of a version string
VersionPair(version) ==
    LET tv == Split(version) IN <<DecimalValue(tv[1], 0), DecimalValue(tv[2], 0)>>

BelowMinimum(version) ==
    LET p == VersionPair(version) IN p[1] < 4 \/ (p[1] = 4 /\ p[2] < 37)

\* C1: for every version string below the minimum 4.37.0, versions of a major
\* number below 4 included, get_model_layers raises the minimum-version error and
\* returns no layers.
C1_OldVersionRaises ==
    (ret.op = "get_model_layers" /\ BelowMinimum(ret.args.version))
        => (ret.exc = MinVersionError /\ ret.val = None)

\* C10: for every version string of three or four components at or above 4.37.0
\* (4.37.0.dev0 and every major above 4 included) the check does not raise and
\* get_model_layers returns model.model.layers itself, in the same order.
C10_NewVersionReturnsLayers ==
    (ret.op = "get_model_layers" /\ Len(Split(ret.args.version)) \in {3, 4}
     /\ ~BelowMinimum(ret.args.version))
        => (ret.exc = "" /\ ret.val = model.model.layers)

C10_Witness ==
    /\ ret.op = "get_model_layers"
    /\ ret.args.version = <<"4", ".", "3", "7", ".", "0", ".", "d", "e", "v", "0">>
    /\ ret.exc = ""
    /\ ret.val.id = "model.layers"
    /\ Len(ret.val.items) = 2
    /\ ret.val.items[2].id = "model.layers.1"

\* The references a model holds: its attribute tree without the placement of the
\* embedding's parameters, which is the state of a tensor and not a reference.
Refs(m) ==
    IF "embed_tokens" \in DOMAIN m.model
    THEN [m EXCEPT !.model.embed_tokens.weight.device = "-"]
    ELSE [m EXCEPT !.model.embedding.weight.device = "-"]

\* block is built from layer.
BuiltFrom(block, layer) ==
    /\ block.qkv_layer.q_proj = layer.self_attn.q_proj
    /\ block.qkv_layer.k_proj = layer.self_attn.k_proj
    /\ block.qkv_layer.v_proj = layer.self_attn.v_proj
    /\ block.o_proj = layer.self_attn.o_proj
    /\ block.moe = layer.block_sparse_moe
    /\ block.norm_1.weight = layer.input_layernorm.weight
    /\ block.norm_2.weight = layer.post_attention_layernorm.weight

\* C2: fuse_transformer visits the layers in their order, one per iteration, and
\* terminates; when it hands the block list to the fused model it has made exactly
\* N iterations, and the list has N blocks, the i-th built from the i-th layer.
C2_SequentialFusion ==
    /\ [][/\ (pc = "loop" /\ pc' = "loop")
                => (iter' = iter + 1 /\ iter' <= Len(Layers)
                    /\ Len(blocks') = iter'
                    /\ BuiltFrom(blocks'[iter'], Layers[iter']))
          /\ (pc = "loop" /\ pc' = "done")
                => LET handed == model'.model.blocks IN
                   /\ iter = Len(Layers)
                   /\ Len(handed) = Len(Layers)
                   /\ \A i \in 1..Len(Layers) : BuiltFrom(handed[i], Layers[i])]_vars
    /\ (pc = "loop") ~> (pc \in {"done", "idle"})

C2_Witness ==
    /\ pc = "done"
    /\ Len(model.model.blocks) = 2
    /\ model.model.blocks[1].moe.id = "model.layers.0.block_sparse_moe"
    /\ model.model.blocks[2].moe.id = "model.layers.1.block_sparse_moe"

\* C3: the step that completes fuse_layers keeps the outer model object and its
\* attribute model.model, which then refers to a new fused model built from the
\* fused blocks, the embed_tokens and norm objects model.model held until then,
\* and the configured vocab_size.
C3_FusedModelReplacesInner ==
    [][(pc = "loop" /\ pc' = "done")
          => /\ model'.id = model.id
             /\ DOMAIN model' = DOMAIN model
             /\ model'.config = model.config
             /\ model'.model.id # model.model.id
             /\ model'.model.blocks = blocks
             /\ model'.model.embedding = model.model.embed_tokens
             /\ model'.model.norm = model.model.norm
             /\ model'.model.vocab_size = model.config.vocab_size]_vars

C3_Witness ==
    /\ pc = "done"
    /\ model.id = "model"
    /\ model.model.id = "MixtralModel(fused)"
    /\ model.model.embedding.id = "model.embed_tokens"
    /\ model.model.embedding.weight.device = "cuda:0"
    /\ model.model.norm.id = "model.norm"
    /\ Len(model.model.blocks) = 1

\* C4: only the fusion routine changes a reference held by the model: a step of
\* any other operation (get_model_layers, get_act_for_scaling, get_moe_for_scaling,
\* get_layers_for_scaling, move_embed, constructing a MixtralFuser) leaves every
\* attribute of the model and of its layers referring to the same object.
C4_OnlyFusionRebinds ==
    [][(pc = "idle" /\ pc' = "idle") => Refs(model') = Refs(model)]_vars

C4_Witness ==
    /\ ret.op = "move_embed"
    /\ ret.args.device = "cuda:0"
    /\ model.model.embed_tokens.id = "model.embed_tokens"
    /\ model.model.embed_tokens.weight.device = "cuda:0"
    /\ Len(Layers) = 2

\* The attributes get_layers_for_scaling reads from a layer are all there.
HasScalingAttributes(module) ==
    /\ {"input_layernorm", "self_attn", "block_sparse_moe"} \subseteq DOMAIN module
    /\ {"q_proj", "k_proj", "v_proj", "o_proj"} \subseteq DOMAIN module.self_attn
    /\ "experts" \in DOMAIN module.block_sparse_moe
    /\ \A j \in 1..Len(module.block_sparse_moe.experts.items) :
          {"w2", "w3"} \subseteq DOMAIN module.block_sparse_moe.experts.items[j]

ShapesEqual(module) ==
    module.self_attn.v_proj.weight.shape = module.self_attn.o_proj.weight.shape

\* The keys of input_feat get_layers_for_scaling reads for a layer.
RequiredKeys(module) ==
    {"self_attn.q_proj", "block_sparse_moe"}
    \cup (IF ShapesEqual(module) THEN {"self_attn.o_proj"} ELSE {})
    \cup {ExpertKey(j - 1) : j \in 1..Len(module.block_sparse_moe.experts.items)}

\* C5: when input_feat lacks a required key ('self_attn.q_proj', 'self_attn.o_proj'
\* if the attention-out descriptor is built, 'block_sparse_moe', an expert's w2 key)
\* or the layer lacks a referenced attribute, get_layers_for_scaling ends in an
\* error and returns no descriptor list, not a partial one.
C5_MissingInputRaises ==
    (ret.op = "get_layers_for_scaling"
     /\ (~HasScalingAttributes(ret.args.module)
         \/ ~(RequiredKeys(ret.args.module) \subseteq DOMAIN ret.args.input_feat)))
        => (ret.exc \in {"KeyError", "AttributeError"} /\ ret.val = None)

C5_Witness ==
    /\ ret.op = "get_layers_for_scaling"
    /\ HasScalingAttributes(ret.args.module)
    /\ Len(ret.args.module.block_sparse_moe.experts.items) = 2
    /\ DOMAIN ret.args.input_feat = FeatKeys \ {ExpertKey(1)}
    /\ ret.exc = "KeyError"
    /\ ret.val = None

IsAttentionOut(module, d) ==
    /\ d.prev_op = module.self_attn.v_proj
    /\ d.layers.items = <<module.self_attn.o_proj>>

\* C6: the attention-out descriptor (prev_op = v_proj, layers = [o_proj]) is in the
\* result if and only if v_proj.weight.shape equals o_proj.weight.shape: a layer of
\* E experts yields 3 + E descriptors when the shapes are equal and 2 + E
\* otherwise, E = 0 included.
C6_AttentionOutIffShapesEqual ==
    (ret.op = "get_layers_for_scaling" /\ ret.exc = "")
        => LET module == ret.args.module
               E == Len(module.block_sparse_moe.experts.items)
               result == ret.val.items IN
           /\ ShapesEqual(module)
                 <=> (\E i \in 1..Len(result) : IsAttentionOut(module, result[i]))
           /\ Len(result) = (IF ShapesEqual(module) THEN 3 ELSE 2) + E

C6_Witness ==
    /\ ret.op = "get_layers_for_scaling"
    /\ ret.exc = ""
    /\ ~ShapesEqual(ret.args.module)
    /\ Len(ret.args.module.block_sparse_moe.experts.items) = 0
    /\ Len(ret.val.items) = 2

\* C7: the descriptors come in a fixed order: attention input (prev_op =
\* input_layernorm, layers = [q_proj, k_proj, v_proj], module2inspect = self_attn,
\* kwargs = module_kwargs), attention out when present, mixture of experts
\* (prev_op = block_sparse_moe, layers = the experts list), then one per expert
\* in increasing index i with prev_op = experts[i].w3, layers = [experts[i].w2]
\* and inp = input_feat['block_sparse_moe.experts.<i>.w2'].
C7_DescriptorOrder ==
    (ret.op = "get_layers_for_scaling" /\ ret.exc = "")
        => LET module == ret.args.module
               input_feat == ret.args.input_feat
               experts == module.block_sparse_moe.experts
               result == ret.val.items
               out == IF ShapesEqual(module) THEN 1 ELSE 0 IN
           /\ RequiredKeys(module) \subseteq DOMAIN input_feat
           /\ Len(result) = 2 + out + Len(experts.items)
           /\ result[1] = [prev_op |-> module.input_layernorm,
                           layers |-> PyList(<<module.self_attn.q_proj,
                                               module.self_attn.k_proj,
                                               module.self_attn.v_proj>>),
                           inp |-> input_feat["self_attn.q_proj"],
                           module2inspect |-> module.self_attn,
                           kwargs |-> ret.args.module_kwargs]
           /\ out = 1 => /\ IsAttentionOut(module, result[2])
                         /\ result[2].inp = input_feat["self_attn.o_proj"]
           /\ result[2 + out].prev_op = module.block_sparse_moe
           /\ result[2 + out].layers = experts
           /\ result[2 + out].inp = input_feat["block_sparse_moe"]
           /\ \A j \in 1..Len(experts.items) :
                 result[2 + out + j] =
                     [prev_op |-> experts.items[j].w3,
                      layers |-> PyList(<<experts.items[j].w2>>),
                      inp |-> input_feat[ExpertKey(j - 1)]]

C7_Witness ==
    /\ ret.op = "get_layers_for_scaling"
    /\ ret.exc = ""
    /\ ShapesEqual(ret.args.module)
    /\ Len(ret.val.items) = 5
    /\ ret.val.items[5].prev_op.id = "model.layers.0.block_sparse_moe.experts.1.w3"
    /\ ret.val.items[5].inp.id = "feat:block_sparse_moe.experts.1.w2"

\* C8: for every decoder layer get_moe_for_scaling returns a descriptor of exactly
\* the keys scale_name, scale_layer, scale_shape: 'block_sparse_moe', the layer's
\* own block_sparse_moe and the pair (num_experts, hidden_dim) read from it; and
\* get_act_for_scaling returns is_scalable = False.
C8_MoeDescriptor ==
    /\ (ret.op = "get_moe_for_scaling" /\ "block_sparse_moe" \in DOMAIN ret.args.module)
          => /\ ret.exc = ""
             /\ DOMAIN ret.val = {"scale_name", "scale_layer", "scale_shape"}
             /\ ret.val.scale_name = "block_sparse_moe"
             /\ ret.val.scale_layer = ret.args.module.block_sparse_moe
             /\ ret.val.scale_shape = <<model.config.num_local_experts,
                                        model.config.hidden_size>>
    /\ ret.op = "get_act_for_scaling"
          => (ret.exc = "" /\ ret.val = [is_scalable |-> FALSE])

C8_Witness ==
    /\ ret.op = "get_moe_for_scaling"
    /\ ret.exc = ""
    /\ ret.val.scale_layer.id = "model.layers.1.block_sparse_moe"
    /\ ret.val.scale_shape = <<2, 8>>

\* C9: fusion is all-or-nothing for model.model: a failure while a block or the
\* fused model is built ends the call with the error and leaves the model as it
\* was, with its layers list, and a reference of the model changes only in the
\* step that follows the building of all N blocks.
C9_FusionAllOrNothing ==
    [][/\ (pc = "loop" /\ pc' = "idle")
             => (model' = model /\ ret'.op = "fuse_layers" /\ ret'.exc # ""
                 /\ model'.model.id = "model.model" /\ "layers" \in DOMAIN model'.model)
       /\ (Refs(model') # Refs(model))
             => (pc = "loop" /\ pc' = "done" /\ iter = Len(Layers)
                 /\ Len(blocks) = Len(Layers))]_vars

C9_Witness ==
    /\ pc = "idle"
    /\ ret.op = "fuse_layers"
    /\ ret.exc = "AttributeError"
    /\ model.model.id = "model.model"
    /\ Len(Layers) = 2
    /\ \A i \in 1..2 : Layers[i].class = "MixtralDecoderLayer"
====
